---- MODULE Spec2Model ----
(***************************************************************************)
(* Model of ETL_toll_data.py: an Airflow DAG of seven tasks chained by     *)
(* download >> unzip >> extract_csv >> extract_tsv >> extract_txt >>       *)
(* consolidate >> transform, whose callables and bash commands read and    *)
(* write text files under one working directory.                           *)
(*                                                                         *)
(* A text file is a sequence of lines, a line a sequence of one-character  *)
(* strings.  The pandas calls (read_csv, concat, .str.upper, to_csv) and   *)
(* the shell commands (cut -c, tr) are modelled on that text, so that what *)
(* a round trip through a step does to a field is computed, not assumed.   *)
(***************************************************************************)
EXTENDS Integers, Sequences, FiniteSets, TLC

(***************************************************************************)
(* Bounds of the model.                                                    *)
(***************************************************************************)
\* the largest number of lines of a member file of the remote archive
MaxRows == 2

(***************************************************************************)
(* Characters and text.                                                    *)
(***************************************************************************)
Digits == <<"0", "1", "2", "3", "4", "5", "6", "7", "8", "9">>

Lower == <<"a", "b", "c", "d", "e", "f", "g", "h", "i", "j", "k", "l", "m",
           "n", "o", "p", "q", "r", "s", "t", "u", "v", "w", "x", "y", "z">>

Upper == <<"A", "B", "C", "D", "E", "F", "G", "H", "I", "J", "K", "L", "M",
           "N", "O", "P", "Q", "R", "S", "T", "U", "V", "W", "X", "Y", "Z">>

Range(s) == {s[i] : i \in DOMAIN s}

IsDigit(c) == c \in Range(Digits)

DigitVal(c) == (CHOOSE i \in DOMAIN Digits : Digits[i] = c) - 1

\* str.upper() on one character
UpperChar(c) ==
    IF c \in Range(Lower)
    THEN Upper[CHOOSE i \in DOMAIN Lower : Lower[i] = c]
    ELSE c

\* str.upper() on a string
UpperStr(s) == [i \in DOMAIN s |-> UpperChar(s[i])]

\* the fields of a line of text, split at every occurrence of sep
RECURSIVE Split(_, _)
Split(line, sep) ==
    IF \A i \in DOMAIN line : line[i] # sep
    THEN <<line>>
    ELSE LET p == CHOOSE i \in DOMAIN line :
                      line[i] = sep /\ \A j \in 1..(i - 1) : line[j] # sep
         IN  <<SubSeq(line, 1, p - 1)>> \o Split(SubSeq(line, p + 1, Len(line)), sep)

\* the fields joined by sep into one line of text
RECURSIVE Join(_, _)
Join(fields, sep) ==
    IF Len(fields) = 0 THEN <<>>
    ELSE IF Len(fields) = 1 THEN fields[1]
    ELSE fields[1] \o <<sep>> \o Join(Tail(fields), sep)

\* int(s) for a string of decimal digits
RECURSIVE ParseInt(_)
ParseInt(s) ==
    IF Len(s) = 0 THEN 0
    ELSE 10 * ParseInt(SubSeq(s, 1, Len(s) - 1)) + DigitVal(s[Len(s)])

\* str(n) for a natural number
RECURSIVE FormatInt(_)
FormatInt(n) ==
    IF n < 10 THEN <<Digits[n + 1]>>
    ELSE FormatInt(n \div 10) \o <<Digits[(n % 10) + 1]>>

(***************************************************************************)
(* pandas, as the four callables use it.  A frame is a sequence of columns;*)
(* a column has a dtype and one cell per row; a cell is NaN, an integer n  *)
(* or a string s.  The model covers fields made of letters, digits and     *)
(* punctuation without sign, decimal point, exponent, quote or embedded    *)
(* delimiter, so a numeric field is a string of digits.                    *)
(***************************************************************************)
\* pandas' default na_values: the fields read_csv turns into NaN
NAValues ==
    { <<>>,
      <<"#", "N", "/", "A">>,
      <<"#", "N", "/", "A", " ", "N", "/", "A">>,
      <<"#", "N", "A">>,
      <<"-", "1", ".", "#", "I", "N", "D">>,
      <<"-", "1", ".", "#", "Q", "N", "A", "N">>,
      <<"-", "N", "a", "N">>,
      <<"-", "n", "a", "n">>,
      <<"1", ".", "#", "I", "N", "D">>,
      <<"1", ".", "#", "Q", "N", "A", "N">>,
      <<"<", "N", "A", ">">>,
      <<"N", "/", "A">>,
      <<"N", "A">>,
      <<"N", "U", "L", "L">>,
      <<"N", "a", "N">>,
      <<"N", "o", "n", "e">>,
      <<"n", "/", "a">>,
      <<"n", "a", "n">>,
      <<"n", "u", "l", "l">> }

IsNA(tok) == tok \in NAValues

IsIntToken(tok) == Len(tok) > 0 /\ \A i \in DOMAIN tok : IsDigit(tok[i])

NaN == [na |-> TRUE, n |-> 0, s |-> <<>>]

\* the dtype read_csv infers for a column from its fields
InferDtype(toks) ==
    IF \A i \in DOMAIN toks : IsNA(toks[i]) \/ IsIntToken(toks[i])
    THEN IF \E i \in DOMAIN toks : IsNA(toks[i]) THEN "float64" ELSE "int64"
    ELSE "object"

\* the cell read_csv makes of a field in a column of the given dtype
ParseCell(dtype, tok) ==
    IF IsNA(tok) THEN NaN
    ELSE IF dtype = "object" THEN [na |-> FALSE, n |-> 0, s |-> tok]
    ELSE [na |-> FALSE, n |-> ParseInt(tok), s |-> <<>>]

ParseColumn(toks) ==
    LET dtype == InferDtype(toks)
    IN  [dtype |-> dtype, vals |-> [i \in DOMAIN toks |-> ParseCell(dtype, toks[i])]]

\* the text to_csv writes for a cell (na_rep = '', floats by repr)
FormatCell(dtype, cell) ==
    IF cell.na THEN <<>>
    ELSE IF dtype = "object" THEN cell.s
    ELSE IF dtype = "float64" THEN FormatInt(cell.n) \o <<".", "0">>
    ELSE FormatInt(cell.n)

NoFrame == [ok |-> FALSE, nrows |-> 0, cols |-> <<>>]

\* pd.read_csv(path, sep=sep, header=None) on a file [exists, lines]:
\* FileNotFoundError on a missing file, blank lines skipped, EmptyDataError
\* when nothing is left, ParserError on a line with more fields than the
\* first one, a shorter line padded with NaN.
read_csv(file, sep) ==
    IF ~file.exists THEN NoFrame
    ELSE
    LET kept == SelectSeq(file.lines, LAMBDA l : Len(l) > 0)
        rows == [i \in DOMAIN kept |-> Split(kept[i], sep)]
    IN  IF Len(rows) = 0 THEN NoFrame
        ELSE IF \E i \in DOMAIN rows : Len(rows[i]) > Len(rows[1]) THEN NoFrame
        ELSE [ok    |-> TRUE,
              nrows |-> Len(rows),
              cols  |-> [j \in 1..Len(rows[1]) |->
                            ParseColumn([i \in DOMAIN rows |->
                                IF j <= Len(rows[i]) THEN rows[i][j] ELSE <<>>])]]

\* df[labels] for a list of 0-based column labels: KeyError on a missing one
SelectColumns(df, labels) ==
    IF ~df.ok \/ \E k \in DOMAIN labels : labels[k] + 1 > Len(df.cols)
    THEN NoFrame
    ELSE [ok |-> TRUE, nrows |-> df.nrows,
          cols |-> [k \in DOMAIN labels |-> df.cols[labels[k] + 1]]]

\* a column reindexed to n rows: the new rows are NaN and int64 becomes float64
Reindex(col, n) ==
    IF Len(col.vals) >= n THEN col
    ELSE [dtype |-> IF col.dtype = "int64" THEN "float64" ELSE col.dtype,
          vals  |-> [i \in 1..n |-> IF i <= Len(col.vals) THEN col.vals[i] ELSE NaN]]

Max(a, b) == IF a >= b THEN a ELSE b

\* pd.concat(frames, axis=1) of three frames
concat(a, b, c) ==
    IF ~(a.ok /\ b.ok /\ c.ok) THEN NoFrame
    ELSE LET n    == Max(a.nrows, Max(b.nrows, c.nrows))
             cols == a.cols \o b.cols \o c.cols
         IN  [ok |-> TRUE, nrows |-> n,
              cols |-> [j \in DOMAIN cols |-> Reindex(cols[j], n)]]

\* df[label] = df[label].str.upper(): KeyError on a missing column,
\* AttributeError on a column that holds no strings, NaN left as it is
str_upper(df, label) ==
    IF ~df.ok \/ label + 1 > Len(df.cols) THEN NoFrame
    ELSE IF df.cols[label + 1].dtype # "object" THEN NoFrame
    ELSE LET vals == df.cols[label + 1].vals
         IN  [df EXCEPT !.cols[label + 1].vals =
                 [i \in DOMAIN vals |->
                     IF vals[i].na THEN vals[i]
                     ELSE [na |-> FALSE, n |-> 0, s |-> UpperStr(vals[i].s)]]]

\* the lines df.to_csv(path, index=False, header=False) writes
to_csv(df) ==
    [i \in 1..df.nrows |->
        Join([j \in DOMAIN df.cols |-> FormatCell(df.cols[j].dtype, df.cols[j].vals[i])],
             ",")]

(***************************************************************************)
(* The working directory.  A text file is [exists, lines]; the archive     *)
(* tolldata.tgz is absent, holds bytes tar cannot read, or holds the three *)
(* member files.                                                           *)
(***************************************************************************)
Members == {"vehicle-data.csv", "tollplaza-data.tsv", "payment-data.txt"}

TextFiles == Members \cup {"csv_data.csv", "tsv_data.csv", "fixed_width_data.csv",
                           "extracted_data.csv", "transformed_data.csv"}

FileNames == {"tolldata.tgz"} \cup TextFiles

Absent == [exists |-> FALSE, lines |-> <<>>]

Written(lines) == [exists |-> TRUE, lines |-> lines]

NoMembers == [m \in Members |-> <<>>]

NoArchive == [kind |-> "absent", members |-> NoMembers]

Garbage == [kind |-> "garbage", members |-> NoMembers]

\* what a command leaves: ok is its exit status, dir the text files after
\* it, read and wrote the files it opened
Raised(dir, read) == [ok |-> FALSE, dir |-> dir, read |-> read, wrote |-> {}]

Done(dir, read, wrote) == [ok |-> TRUE, dir |-> dir, read |-> read, wrote |-> wrote]

\* def extracting_csv()
extracting_csv(dir) ==
    LET df       == read_csv(dir["vehicle-data.csv"], ",")
        csv_data == SelectColumns(df, <<0, 1, 2, 3>>)
    IN  IF ~csv_data.ok THEN Raised(dir, {"vehicle-data.csv"})
        ELSE Done([dir EXCEPT !["csv_data.csv"] = Written(to_csv(csv_data))],
                  {"vehicle-data.csv"}, {"csv_data.csv"})

\* def extracting_tsv()
extracting_tsv(dir) ==
    LET df       == read_csv(dir["tollplaza-data.tsv"], "\t")
        tsv_data == SelectColumns(df, <<4, 5, 6>>)
    IN  IF ~tsv_data.ok THEN Raised(dir, {"tollplaza-data.tsv"})
        ELSE Done([dir EXCEPT !["tsv_data.csv"] = Written(to_csv(tsv_data))],
                  {"tollplaza-data.tsv"}, {"tsv_data.csv"})

\* def consolidating()
consolidating(dir) ==
    LET csv_data       == read_csv(dir["csv_data.csv"], ",")
        tsv_data       == read_csv(dir["tsv_data.csv"], ",")
        txt_data       == read_csv(dir["fixed_width_data.csv"], ",")
        extracted_data == concat(csv_data, tsv_data, txt_data)
        read           == {"csv_data.csv", "tsv_data.csv", "fixed_width_data.csv"}
    IN  IF ~extracted_data.ok THEN Raised(dir, read)
        ELSE Done([dir EXCEPT !["extracted_data.csv"] = Written(to_csv(extracted_data))],
                  read, {"extracted_data.csv"})

\* the uppercased table written back over the consolidated one
transformingInPlace(dir) ==
    LET extracted_data == read_csv(dir["extracted_data.csv"], ",")
        upper          == str_upper(extracted_data, 3)
    IN  IF ~upper.ok THEN Raised(dir, {"extracted_data.csv"})
        ELSE Done([dir EXCEPT !["extracted_data.csv"] = Written(to_csv(upper))],
                  {"extracted_data.csv"}, {"extracted_data.csv"})

\* def transforming()
transforming(dir) ==
    LET extracted_data == read_csv(dir["extracted_data.csv"], ",")
        upper          == str_upper(extracted_data, 3)
    IN  IF ~upper.ok THEN Raised(dir, {"extracted_data.csv"})
        ELSE Done([dir EXCEPT !["transformed_data.csv"] = Written(to_csv(upper))],
                  {"extracted_data.csv"}, {"transformed_data.csv"})

\* the first range one character short
CutRangesShort == <<[from |-> 59, to |-> 61], [from |-> 63, to |-> 67]>>

\* the character ranges of cut -c 59-62,63-67
CutRanges == <<[from |-> 59, to |-> 62], [from |-> 63, to |-> 67]>>

\* cut -c: the characters of the line whose position lies in one of the
\* ranges, in line order, with nothing put between them
cut_c(line, ranges) ==
    LET Picked(p) == \E k \in DOMAIN ranges : ranges[k].from <= p /\ p <= ranges[k].to
        Pos       == {p \in DOMAIN line : Picked(p)}
        Nth(k)    == CHOOSE p \in Pos : Cardinality({q \in Pos : q < p}) = k - 1
    IN  [k \in 1..Cardinality(Pos) |-> line[Nth(k)]]

\* tr a b: every character a replaced by b
tr(line, a, b) == [i \in DOMAIN line |-> IF line[i] = a THEN b ELSE line[i]]

\* the output appended (>>) instead of replaced (>)
extract_txt_append(dir) ==
    LET src == dir["payment-data.txt"]
        out == IF src.exists
               THEN [i \in DOMAIN src.lines |-> tr(cut_c(src.lines[i], CutRanges), " ", ",")]
               ELSE <<>>
    IN  Done([dir EXCEPT !["fixed_width_data.csv"] = Written(@.lines \o out)],
             {"payment-data.txt"}, {"fixed_width_data.csv"})

\* cut -c 59-62,63-67 payment-data.txt | tr ' ' ',' > fixed_width_data.csv
\* The redirection truncates the output before cut runs, and the exit status
\* is tr's: a missing input leaves an empty output and a zero status.
extract_txt_command(dir) ==
    LET src == dir["payment-data.txt"]
        out == IF src.exists
               THEN [i \in DOMAIN src.lines |-> tr(cut_c(src.lines[i], CutRanges), " ", ",")]
               ELSE <<>>
    IN  Done([dir EXCEPT !["fixed_width_data.csv"] = Written(out)],
             {"payment-data.txt"}, {"fixed_width_data.csv"})

\* tar -xzf tolldata.tgz -C address: every member written over what is there
unzip_command(archive, dir) ==
    IF archive.kind # "archive" THEN Raised(dir, {"tolldata.tgz"})
    ELSE Done([f \in TextFiles |->
                 IF f \in Members THEN Written(archive.members[f]) ELSE dir[f]],
              {"tolldata.tgz"}, Members)

(***************************************************************************)
(* The remote archive: each member file is at most MaxRows lines drawn     *)
(* from a pool of lines of its format.                                     *)
(***************************************************************************)
\* lines of vehicle-data.csv: "1,T,12,car,2" and "2,T,07,na,2"
Vehicle1 == <<"1", ",", "T", ",", "1", "2", ",", "c", "a", "r", ",", "2">>

Vehicle2 == <<"2", ",", "T", ",", "0", "7", ",", "n", "a", ",", "2">>

VehicleLines == {Vehicle1, Vehicle2}

\* lines of tollplaza-data.tsv (tab-separated):
\* "1 T 12 car 4 48 PC7" and "2 T 12 car 2 07 NA"
Tollplaza1 == <<"1", "\t", "T", "\t", "1", "2", "\t", "c", "a", "r", "\t", "4", "\t", "4", "8", "\t", "P", "C", "7">>

Tollplaza2 == <<"2", "\t", "T", "\t", "1", "2", "\t", "c", "a", "r", "\t", "2", "\t", "0", "7", "\t", "N", "A">>

TollplazaLines == {Tollplaza1, Tollplaza2}

\* the characters before the first cut position of a line of payment-data.txt
Filler == [i \in 1..(CutRanges[1].from - 1) |-> "x"]

\* lines of payment-data.txt: "...PTC VC965", "...07 PTCVC9zz" (a number, the
\* space one position early, text after the last cut position),
\* "...PTCXVC965" (no space) and a line that ends before the first cut position
Payment1 == Filler \o <<"P", "T", "C", " ", "V", "C", "9", "6", "5">>

Payment2 == Filler \o <<"0", "7", " ", "P", "T", "C", "V", "C", "9", "z", "z">>

Payment3 == Filler \o <<"P", "T", "C", "X", "V", "C", "9", "6", "5">>

Payment4 == <<"x", "x", "x", "x">>

PaymentLines == {Payment1, Payment2, Payment3, Payment4}

TextsOver(pool) == UNION {[1..n -> pool] : n \in 0..MaxRows}

Archive(v, t, p) ==
    [kind |-> "archive",
     members |-> [m \in Members |->
                     IF m = "vehicle-data.csv" THEN v
                     ELSE IF m = "tollplaza-data.tsv" THEN t
                     ELSE p]]

Archives ==
    { Archive(v, t, p) :
      v \in TextsOver(VehicleLines), t \in TextsOver(TollplazaLines),
      p \in TextsOver(PaymentLines) }

\* sample archives: a vehicle file of two lines or none, a payment file that
\* consolidation can read or one whose second line has more fields than
\* its first
SampleArchives ==
    { Archive(v, <<Tollplaza1, Tollplaza2>>, p) :
      v \in {<<>>, <<Vehicle1, Vehicle2>>},
      p \in {<<Payment1, Payment2>>, <<Payment3, Payment1>>} }

(***************************************************************************)
(* The DAG and the scheduler's handling of its task instances.             *)
(***************************************************************************)
Tasks == {"download", "unzip", "extract_csv", "extract_tsv", "extract_txt",
          "consolidate", "transform"}

\* download >> unzip >> extract_csv >> extract_tsv >> extract_txt
\*          >> consolidate >> transform
Edges == { <<"download", "unzip">>, <<"unzip", "extract_csv">>,
           <<"extract_csv", "extract_tsv">>, <<"extract_tsv", "extract_txt">>,
           <<"extract_txt", "consolidate">>, <<"consolidate", "transform">> }

\* the extractors fanned out after unzip instead of chained
UpstreamFanOut(t) ==
    IF t \in {"extract_csv", "extract_tsv", "extract_txt"} THEN {"unzip"}
    ELSE IF t = "consolidate" THEN {"extract_csv", "extract_tsv", "extract_txt"}
    ELSE {u \in Tasks : <<u, t>> \in Edges}

\* the chain broken in two: consolidate follows extract_csv, and extract_tsv
\* and extract_txt hang off extract_csv as a side branch
UpstreamBroken(t) ==
    IF t = "consolidate" THEN {"extract_csv"}
    ELSE {u \in Tasks : <<u, t>> \in Edges}

Upstream(t) == {u \in Tasks : <<u, t>> \in Edges}

\* two retries instead of one
retriesTwo == 1 + 1

\* default_args['retries']
retries == 1

VARIABLES
    remote,    \* the archive the URL serves
    tgz,       \* tolldata.tgz in the working directory
    dir,       \* the text files of the working directory
    state,     \* the state of each task instance of the run
    tries,     \* the number of attempts started, per task
    failures,  \* the number of attempts that ended in failure, per task
    error,     \* how the last attempt failed: "none", "raised", "fault"
    readers,   \* per file, the tasks whose command has read it
    writers,   \* per file, the tasks whose command has written it
    first,     \* per task, its first complete execution: inputs and outputs
    rerunSame, \* per task: it was executed again on the inputs of the first
    rerunDiff  \* per task: such an execution left outputs unlike the first

vars == <<remote, tgz, dir, state, tries, failures, error, readers, writers,
          first, rerunSame, rerunDiff>>

Exists(f) == IF f = "tolldata.tgz" THEN tgz.kind # "absent" ELSE dir[f].exists

\* the run starts in an empty working directory, with no task started
Started(archives) ==
    /\ remote \in archives
    /\ tgz = NoArchive
    /\ dir = [f \in TextFiles |-> Absent]
    /\ state = [t \in Tasks |-> "none"]
    /\ tries = [t \in Tasks |-> 0]
    /\ failures = [t \in Tasks |-> 0]
    /\ error = [t \in Tasks |-> "none"]
    /\ readers = [f \in FileNames |-> {}]
    /\ writers = [f \in FileNames |-> {}]
    /\ first = [t \in Tasks |-> [n |-> 0, in |-> <<>>, out |-> <<>>]]
    /\ rerunSame = [t \in Tasks |-> FALSE]
    /\ rerunDiff = [t \in Tasks |-> FALSE]

Init == Started(SampleArchives)

InitData == Started(Archives)

\* the contents of a set of files in a directory state
Snapshot(files, archive, d) ==
    [f \in files |-> IF f = "tolldata.tgz" THEN archive ELSE d[f]]

\* curl <url> -o tolldata.tgz, where response is what the server sends:
\* the file is replaced by it
download_command(response) ==
    [ok |-> TRUE, tgz |-> response, dir |-> dir, read |-> {}, wrote |-> {"tolldata.tgz"}]

\* a command that leaves the archive as it is
OnDir(r) == [ok |-> r.ok, tgz |-> tgz, dir |-> r.dir, read |-> r.read, wrote |-> r.wrote]

\* the bash_command or python_callable of a task, run on the working directory
Command(t, response) ==
    CASE t = "download"    -> download_command(response)
      [] t = "unzip"       -> OnDir(unzip_command(tgz, dir))
      [] t = "extract_csv" -> OnDir(extracting_csv(dir))
      [] t = "extract_tsv" -> OnDir(extracting_tsv(dir))
      [] t = "extract_txt" -> OnDir(extract_txt_command(dir))
      [] t = "consolidate" -> OnDir(consolidating(dir))
      [] t = "transform"   -> OnDir(transforming(dir))

\* a failed attempt: retried while attempts remain, failed for good after
HandleFailure(t, kind) ==
    /\ state' = [state EXCEPT ![t] = IF tries[t] <= retries THEN "up_for_retry"
                                     ELSE "failed"]
    /\ failures' = [failures EXCEPT ![t] = @ + 1]
    /\ error' = [error EXCEPT ![t] = kind]

\* the record of which task read and wrote which file
Opened(t, read, wrote) ==
    /\ readers' = [f \in FileNames |-> IF f \in read THEN readers[f] \cup {t}
                                       ELSE readers[f]]
    /\ writers' = [f \in FileNames |-> IF f \in wrote THEN writers[f] \cup {t}
                                       ELSE writers[f]]

\* a command of t that ran to its end and left r: the files change, and the
\* execution is compared with the first one of t on the same inputs
Executed(t, response, r) ==
    LET ins  == IF t = "download" THEN <<response>> ELSE Snapshot(r.read, tgz, dir)
        outs == Snapshot(r.wrote, r.tgz, r.dir)
    IN  /\ tgz' = r.tgz
        /\ dir' = r.dir
        /\ Opened(t, r.read, r.wrote)
        /\ IF first[t].n = 0
           THEN /\ first' = [first EXCEPT ![t] = [n |-> 1, in |-> ins, out |-> outs]]
                /\ UNCHANGED <<rerunSame, rerunDiff>>
           ELSE /\ first' = first
                /\ rerunSame' = [rerunSame EXCEPT ![t] = @ \/ first[t].in = ins]
                /\ rerunDiff' = [rerunDiff EXCEPT ![t] =
                                    @ \/ (first[t].in = ins /\ first[t].out # outs)]

\* the scheduler starts the first attempt of a task whose upstream tasks
\* have all succeeded
Start(t) ==
    /\ state[t] = "none"
    /\ \A u \in Upstream(t) : state[u] = "success"
    /\ state' = [state EXCEPT ![t] = "running"]
    /\ tries' = [tries EXCEPT ![t] = @ + 1]
    /\ UNCHANGED <<remote, tgz, dir, failures, error, readers, writers,
                   first, rerunSame, rerunDiff>>

\* the scheduler starts the next attempt after retry_delay
Retry(t) ==
    /\ state[t] = "up_for_retry"
    /\ state' = [state EXCEPT ![t] = "running"]
    /\ tries' = [tries EXCEPT ![t] = @ + 1]
    /\ UNCHANGED <<remote, tgz, dir, failures, error, readers, writers,
                   first, rerunSame, rerunDiff>>

\* a task downstream of a failed one is never started
UpstreamFailed(t) ==
    /\ state[t] = "none"
    /\ \E u \in Upstream(t) : state[u] \in {"failed", "upstream_failed"}
    /\ state' = [state EXCEPT ![t] = "upstream_failed"]
    /\ UNCHANGED <<remote, tgz, dir, tries, failures, error, readers, writers,
                   first, rerunSame, rerunDiff>>

\* the attempt of t runs its command to the end: success on a zero status,
\* a failed attempt otherwise
Attempt(t, response) ==
    /\ state[t] = "running"
    /\ LET r == Command(t, response)
       IN  IF r.ok
           THEN /\ Executed(t, response, r)
                /\ state' = [state EXCEPT ![t] = "success"]
                /\ error' = [error EXCEPT ![t] = "none"]
                /\ UNCHANGED failures
           ELSE /\ HandleFailure(t, "raised")
                /\ Opened(t, r.read, r.wrote)
                /\ UNCHANGED <<tgz, dir, first, rerunSame, rerunDiff>>
    /\ UNCHANGED <<remote, tries>>

\* the server sends the archive, or an error page that curl (run without
\* --fail) saves with a zero status
Responses == {remote, Garbage}

Download == \E response \in Responses : Attempt("download", response)

Unzip == Attempt("unzip", Garbage)

ExtractCsv == Attempt("extract_csv", Garbage)

ExtractTsv == Attempt("extract_tsv", Garbage)

ExtractTxt == Attempt("extract_txt", Garbage)

Consolidate == Attempt("consolidate", Garbage)

Transform == Attempt("transform", Garbage)

\* the attempt of t is ended from outside (the worker is killed, the
\* connection drops, the disk fills): before the command has opened a file,
\* with its outputs opened and still empty, or after its last write
Fault(t) ==
    /\ state[t] = "running"
    /\ \E response \in Responses :
         LET r == Command(t, response)
         IN  \/ UNCHANGED <<tgz, dir, readers, writers, first, rerunSame, rerunDiff>>
             \/ /\ r.ok
                /\ tgz' = IF "tolldata.tgz" \in r.wrote THEN Garbage ELSE tgz
                /\ dir' = [f \in TextFiles |->
                             IF f \in r.wrote THEN Written(<<>>) ELSE dir[f]]
                /\ Opened(t, r.read, r.wrote)
                /\ UNCHANGED <<first, rerunSame, rerunDiff>>
             \/ /\ r.ok
                /\ Executed(t, response, r)
    /\ HandleFailure(t, "fault")
    /\ UNCHANGED <<remote, tries>>

Next ==
    \/ \E t \in Tasks : Start(t)
    \/ \E t \in Tasks : Retry(t)
    \/ \E t \in Tasks : UpstreamFailed(t)
    \/ \E t \in Tasks : Fault(t)
    \/ Download
    \/ Unzip
    \/ ExtractCsv
    \/ ExtractTsv
    \/ ExtractTxt
    \/ Consolidate
    \/ Transform

\* the run of the DAG with attempts ended from outside, on sample archives
Spec == Init /\ [][Next]_vars

NextData ==
    \/ \E t \in Tasks : Start(t)
    \/ \E t \in Tasks : Retry(t)
    \/ \E t \in Tasks : UpstreamFailed(t)
    \/ Download
    \/ Unzip
    \/ ExtractCsv
    \/ ExtractTsv
    \/ ExtractTxt
    \/ Consolidate
    \/ Transform

\* the run of the DAG on every archive within the bounds, where an attempt
\* fails only when its own command does
SpecData == InitData /\ [][NextData]_vars

(***************************************************************************)
(* Properties of the run: ordering, retries, and the life of the files.    *)
(***************************************************************************)
\* the order of the steps of the pipeline
PipelineOrder == <<"download", "unzip", "extract_csv", "extract_tsv", "extract_txt",
                   "consolidate", "transform">>

Position(t) == CHOOSE k \in DOMAIN PipelineOrder : PipelineOrder[k] = t

Content(f) == IF f = "tolldata.tgz" THEN tgz ELSE dir[f]

\* C1: the steps run in the strict linear order of the pipeline: at most one
\* step is running at any time, a step has been started only if its immediate
\* predecessor has succeeded, and after a step has failed no later step has
\* been started.
C1_LinearOrder ==
    /\ Cardinality({t \in Tasks : state[t] = "running"}) <= 1
    /\ \A k \in 2..Len(PipelineOrder) :
         tries[PipelineOrder[k]] > 0 => state[PipelineOrder[k - 1]] = "success"
    /\ \A k \in DOMAIN PipelineOrder : \A l \in DOMAIN PipelineOrder :
         (k < l /\ state[PipelineOrder[k]] = "failed") =>
             /\ tries[PipelineOrder[l]] = 0
             /\ state[PipelineOrder[l]] \in {"none", "upstream_failed"}

\* a step failed after its predecessors succeeded, and the step after it was
\* marked as not to be run
C1_Witness ==
    /\ state["extract_txt"] = "success"
    /\ state["consolidate"] = "failed"
    /\ state["transform"] = "upstream_failed"

\* C2: a step is attempted at most twice, the second time only after the
\* first attempt failed; a step whose two attempts failed is in the failed
\* state, and a failed step is never attempted again.
C2_RetryOnce ==
    /\ [](\A t \in Tasks :
            /\ tries[t] <= 2
            /\ tries[t] = 2 => failures[t] >= 1
            /\ failures[t] = 2 => state[t] = "failed"
            /\ state[t] = "failed" => (tries[t] = 2 /\ failures[t] = 2)
            /\ state[t] = "up_for_retry" => (tries[t] = 1 /\ failures[t] = 1))
    /\ [][\A t \in Tasks :
            state[t] = "failed" => (state'[t] = "failed" /\ tries'[t] = tries[t])]_vars

\* one step failed for good on its second attempt and another succeeded on
\* its retry
C2_Witness ==
    \E t \in Tasks, u \in Tasks :
        /\ state[t] = "failed" /\ tries[t] = 2
        /\ state[u] = "success" /\ tries[u] = 2 /\ failures[u] = 1

\* the files each step reads, as the pipeline describes them
C10_Inputs(t) ==
    CASE t = "download"    -> {}
      [] t = "unzip"       -> {"tolldata.tgz"}
      [] t = "extract_csv" -> {"vehicle-data.csv"}
      [] t = "extract_tsv" -> {"tollplaza-data.tsv"}
      [] t = "extract_txt" -> {"payment-data.txt"}
      [] t = "consolidate" -> {"csv_data.csv", "tsv_data.csv", "fixed_width_data.csv"}
      [] t = "transform"   -> {"extracted_data.csv"}

C7_Original ==
    \A f \in FileNames :
        /\ Cardinality(writers[f]) <= 1
        /\ \A w \in writers[f] : \A r \in readers[f] :
             Position(r) = Position(w) + 1

\* C7, amended: every artifact is written by one step only (which writes it
\* again when it is retried), is read by one step only, a step later in the
\* pipeline order than the producer; once its producer has succeeded it is
\* never changed; it is never removed; and after a run in which every step
\* succeeded each artifact has exactly one producer and, but for the final
\* output, exactly one consumer.
C7_Amended ==
    /\ [](/\ \A f \in FileNames :
               /\ Cardinality(writers[f]) <= 1
               /\ Cardinality(readers[f]) <= 1
               /\ \A w \in writers[f] : \A r \in readers[f] :
                    Position(r) > Position(w)
          /\ (\A t \in Tasks : state[t] = "success") =>
               \A f \in FileNames :
                   /\ Cardinality(writers[f]) = 1
                   /\ f # "transformed_data.csv" => Cardinality(readers[f]) = 1)
    /\ [][\A f \in FileNames :
            /\ Exists(f) => Exists(f)'
            /\ (\E w \in writers[f] : state[w] = "success") =>
                   Content(f)' = Content(f)
            /\ Content(f)' # Content(f) =>
                   \E w \in writers'[f] : state[w] = "running"]_vars

\* every step has succeeded, one of them on a retry that wrote its artifact
\* a second time
C7_Witness ==
    /\ \A t \in Tasks : state[t] = "success"
    /\ \E t \in Tasks : rerunSame[t]

\* C8 as stated: re-running is not idempotent; when steps have been executed
\* a second time on unchanged inputs, at least one of them has left its
\* artifact different from what its first execution left.
C8_Original ==
    (\E t \in Tasks : rerunSame[t]) => (\E t \in Tasks : rerunDiff[t])

\* C8, amended: every step replaces its artifact; a step executed a second
\* time on unchanged inputs leaves its artifact as its first execution did.
C8_RerunSameOutput == \A t \in Tasks : ~rerunDiff[t]

\* the fixed-width extractor has run twice on the same payment file and then
\* succeeded
C8_Witness ==
    /\ rerunSame["extract_txt"]
    /\ state["extract_txt"] = "success"
    /\ Len(dir["fixed_width_data.csv"].lines) > 0

(***************************************************************************)
(* Properties of the data the steps write.                                 *)
(***************************************************************************)
Min(a, b) == IF a <= b THEN a ELSE b

\* the characters a line has at positions from..to
Chars(line, from, to) == SubSeq(line, from, Min(to, Len(line)))

Lines(f) == dir[f].lines

\* n empty fields
Empties(n) == [k \in 1..n |-> <<>>]

\* C5: after the CSV extractor has succeeded, csv_data.csv holds, line for
\* line, the first four fields of vehicle-data.csv; after the TSV extractor
\* has succeeded, tsv_data.csv holds, line for line, the fifth to seventh
\* fields of tollplaza-data.tsv.
C5_Columns ==
    /\ state["extract_csv"] = "success" =>
         /\ Len(Lines("csv_data.csv")) = Len(Lines("vehicle-data.csv"))
         /\ \A i \in DOMAIN Lines("vehicle-data.csv") :
              Split(Lines("csv_data.csv")[i], ",") =
                  SubSeq(Split(Lines("vehicle-data.csv")[i], ","), 1, 4)
    /\ state["extract_tsv"] = "success" =>
         /\ Len(Lines("tsv_data.csv")) = Len(Lines("tollplaza-data.tsv"))
         /\ \A i \in DOMAIN Lines("tollplaza-data.tsv") :
              Split(Lines("tsv_data.csv")[i], ",") =
                  SubSeq(Split(Lines("tollplaza-data.tsv")[i], "\t"), 5, 7)

\* C6 as stated: every line of fixed_width_data.csv is the characters at
\* positions 59-62 of the input line, a comma, and the characters at 63-67.
C6_Original ==
    state["extract_txt"] = "success" =>
        /\ Len(Lines("fixed_width_data.csv")) = Len(Lines("payment-data.txt"))
        /\ \A i \in DOMAIN Lines("payment-data.txt") :
             Lines("fixed_width_data.csv")[i] =
                 Chars(Lines("payment-data.txt")[i], 59, 62) \o <<",">>
                     \o Chars(Lines("payment-data.txt")[i], 63, 67)

\* C6, amended: every line of fixed_width_data.csv is the characters at
\* positions 59-67 of the input line, as many as the line has, with every
\* space replaced by a comma and nothing put between them; where position 62
\* holds the only space among them, these are two fields, the characters at
\* 59-61 and those at 63-67.
C6_CutAndTr ==
    state["extract_txt"] = "success" =>
        /\ Len(Lines("fixed_width_data.csv")) = Len(Lines("payment-data.txt"))
        /\ \A i \in DOMAIN Lines("payment-data.txt") :
             LET line == Lines("payment-data.txt")[i]
                 out  == Lines("fixed_width_data.csv")[i]
                 got  == Chars(line, 59, 67)
             IN  /\ Len(out) = Len(got)
                 /\ \A k \in DOMAIN got :
                      out[k] = IF got[k] = " " THEN "," ELSE got[k]
                 /\ ( /\ Len(line) >= 67
                      /\ \A q \in 59..67 : (line[q] = " ") <=> (q = 62)
                      /\ \A q \in 59..67 : line[q] # "," )
                    => Split(out, ",") = <<SubSeq(line, 59, 61), SubSeq(line, 63, 67)>>

\* the fixed-width extractor has succeeded on a file with the line
\* "...PTC VC965" and a line that ends before position 59
C6_Witness ==
    /\ state["extract_txt"] = "success"
    /\ \E i \in DOMAIN Lines("payment-data.txt") :
         /\ Lines("payment-data.txt")[i] = Payment1
         /\ Split(Lines("fixed_width_data.csv")[i], ",") =
                <<<<"P", "T", "C">>, <<"V", "C", "9", "6", "5">>>>
    /\ \E i \in DOMAIN Lines("payment-data.txt") :
         Len(Lines("payment-data.txt")[i]) < 59

\* the three extractor outputs have n rows each: n lines, none of them blank
SameRowCount(n) ==
    \A f \in {"csv_data.csv", "tsv_data.csv", "fixed_width_data.csv"} :
        /\ Len(Lines(f)) = n
        /\ \A i \in DOMAIN Lines(f) : Len(Lines(f)[i]) > 0

\* C3: after consolidation has succeeded on three extractor outputs of n
\* rows each, extracted_data.csv has n rows, and row i is the fields of row
\* i of csv_data.csv, then those of tsv_data.csv, then those of
\* fixed_width_data.csv.
C3_RowWise ==
    \A n \in 0..(MaxRows + 1) :
        (state["consolidate"] = "success" /\ SameRowCount(n)) =>
            /\ Len(Lines("extracted_data.csv")) = n
            /\ \A i \in 1..n :
                 Split(Lines("extracted_data.csv")[i], ",") =
                     Split(Lines("csv_data.csv")[i], ",")
                         \o Split(Lines("tsv_data.csv")[i], ",")
                         \o Split(Lines("fixed_width_data.csv")[i], ",")

\* the fields of row i of an extractor output of the given width, empty
\* fields when it has no row i
RowOrEmpties(f, i, width) ==
    IF i <= Len(Lines(f)) THEN Split(Lines(f)[i], ",") ELSE Empties(width)

\* the three extractor outputs are tables of four, three and two columns,
\* with no blank line, whose row counts are not all equal
RowCountMismatch ==
    /\ \A i \in DOMAIN Lines("csv_data.csv") :
         Len(Split(Lines("csv_data.csv")[i], ",")) = 4
    /\ \A i \in DOMAIN Lines("tsv_data.csv") :
         Len(Split(Lines("tsv_data.csv")[i], ",")) = 3
    /\ \A i \in DOMAIN Lines("fixed_width_data.csv") :
         Len(Split(Lines("fixed_width_data.csv")[i], ",")) = 2
    /\ ~ ( /\ Len(Lines("csv_data.csv")) = Len(Lines("tsv_data.csv"))
           /\ Len(Lines("tsv_data.csv")) = Len(Lines("fixed_width_data.csv")) )

\* C9: on extractor outputs whose row counts are not all equal, consolidation
\* does not raise, and when it has succeeded extracted_data.csv has as many
\* rows as the longest of them, row i holding the fields of each output that
\* has a row i and empty fields in the columns of each output that has none.
C9_Mismatch ==
    ( /\ tries["consolidate"] > 0
      /\ state["extract_txt"] = "success"
      /\ RowCountMismatch ) =>
        /\ error["consolidate"] # "raised"
        /\ state["consolidate"] = "success" =>
             LET n == Max(Len(Lines("csv_data.csv")),
                          Max(Len(Lines("tsv_data.csv")),
                              Len(Lines("fixed_width_data.csv"))))
             IN  /\ Len(Lines("extracted_data.csv")) = n
                 /\ \A i \in 1..n :
                      Split(Lines("extracted_data.csv")[i], ",") =
                          RowOrEmpties("csv_data.csv", i, 4)
                              \o RowOrEmpties("tsv_data.csv", i, 3)
                              \o RowOrEmpties("fixed_width_data.csv", i, 2)

\* the fields of a line with the fourth one in upper case
FourthUpper(line) ==
    LET fields == Split(line, ",")
    IN  [k \in DOMAIN fields |-> IF k = 4 THEN UpperStr(fields[k]) ELSE fields[k]]

\* the transformation changes the fourth column only: transformed_data.csv
\* has the rows of extracted_data.csv, in their order, with the fourth field
\* in upper case and every other field as it was
C4_FourthColumnOnly ==
    state["transform"] = "success" =>
        /\ Len(Lines("transformed_data.csv")) = Len(Lines("extracted_data.csv"))
        /\ \A i \in DOMAIN Lines("extracted_data.csv") :
             Split(Lines("transformed_data.csv")[i], ",") =
                 FourthUpper(Lines("extracted_data.csv")[i])

\* the transformation applied to transformed_data.csv gives it again
C4_Idempotent ==
    state["transform"] = "success" =>
        LET again == transforming([dir EXCEPT !["extracted_data.csv"] =
                                       dir["transformed_data.csv"]])
        IN  /\ again.ok
            /\ again.dir["transformed_data.csv"] = dir["transformed_data.csv"]

\* C4: the transformation changes the fourth column only, to upper case,
\* keeping the rows and their order, and is idempotent.
C4_UpperOnce == C4_FourthColumnOnly /\ C4_Idempotent

====
